---- MODULE Spec2Model ----
(***************************************************************************)
(* Model of pf_gear.py (gear changes per meeting / race / runner for a     *)
(* date) and of the way main.py drives it.                                 *)
(*                                                                         *)
(* Representation.  A Python str is a tuple of one-character strings       *)
(* ("Ab" is <<"A","b">>), so strip(), lower(), int() and the date regexes  *)
(* are computed character by character.  An Optional value is None == <<>> *)
(* or Some(v) == <<v>>.  A record returned by _canonise is a TLA+ record   *)
(* whose fields are the canonical keys the code reads; every row of the    *)
(* upstream carries at most one alias of each alias set, so the iteration  *)
(* order of the Python sets in _get_first plays no part.                   *)
(***************************************************************************)
EXTENDS Integers, Sequences, FiniteSets, TLC

VARIABLES
    key,              \* PF_API_KEY is set (pf_gear.py:11)
    date,             \* date_str handed to fetch_gear_for_date
    listingYmd,       \* upstream: meeting rows served to a YYYY-MM-DD listing query
    listingDmy,       \* upstream: meeting rows served to a DD-MM-YYYY listing query
    scrFeed,          \* upstream: records of Updates/Scratchings
    condFeed,         \* upstream: records of Updates/Conditions
    form,             \* upstream: form[mid][rn] = rows of form/form/csv
    pc,               \* position of fetch_gear_for_date
    q,                \* index into tries (pf_gear.py:223)
    seen,             \* seen of _meetings_from_meeting_csv
    lst_out,          \* out of _meetings_from_meeting_csv (a)
    upd_out,          \* out of _meetings_from_updates, in insertion order (b)
    meetings,         \* result of _meetings_for_date
    mi,               \* index of the meeting the loop of fetch_gear_for_date is at
    rn,               \* race number of the loop of _gear_from_meeting_csv
    consecutive_empty,
    all_rows,
    meeting_name,
    out_meetings,
    result,           \* the returned GearReport, None until returned
    err,              \* the exception fetch_gear_for_date raised, "" if none
    netCalls,         \* number of client.get calls made
    faults,           \* number of failed HTTP attempts so far
    qlog,             \* the fetch calls issued, in order
    lastFetch,        \* the last stand-alone call of a function, with its result
    GEAR_CACHE,       \* main.py:23, a function from date strings to reports
    reqs              \* the HTTP requests to /gear/daily and /gear/today

vars == <<key, date, listingYmd, listingDmy, scrFeed, condFeed, form, pc, q,
          seen, lst_out, upd_out, meetings, mi, rn, consecutive_empty,
          all_rows, meeting_name, out_meetings, result, err, netCalls,
          faults, qlog, lastFetch, GEAR_CACHE, reqs>>

serverVars == <<GEAR_CACHE, reqs>>

upstreamVars == <<key, date, listingYmd, listingDmy, scrFeed, condFeed, form>>

-----------------------------------------------------------------------------
(* Optional values and Python truthiness *)

None == << >>
Some(v) == <<v>>

\* bool(x) for an Optional[str]: None and "" are falsy
TruthyStr(x) == x # None /\ x[1] # << >>

\* bool(x) for an Optional[int]: None and 0 are falsy
TruthyInt(x) == x # None /\ x[1] # 0

\* a or b, on Optional[str]
OrStr(a, b) == IF TruthyStr(a) THEN a ELSE b

\* a or b, on Optional[int]
OrInt(a, b) == IF TruthyInt(a) THEN a ELSE b

-----------------------------------------------------------------------------
(* Strings *)

Digits == <<"0", "1", "2", "3", "4", "5", "6", "7", "8", "9">>
IsDigit(ch) == \E i \in 1..10 : Digits[i] = ch
DigitVal(ch) == (CHOOSE i \in 1..10 : Digits[i] = ch) - 1

UpperChars == <<"B", "C", "F", "N", "T", "Y">>
LowerChars == <<"b", "c", "f", "n", "t", "y">>

\* str.lower() on one character
LowerChar(ch) ==
    IF \E i \in 1..Len(UpperChars) : UpperChars[i] = ch
    THEN LowerChars[CHOOSE i \in 1..Len(UpperChars) : UpperChars[i] = ch]
    ELSE ch

\* s.lower()
Lower(s) == [i \in 1..Len(s) |-> LowerChar(s[i])]

IsSpace(ch) == ch = " "

RECURSIVE LStrip(_)
LStrip(s) == IF s # << >> /\ IsSpace(Head(s)) THEN LStrip(Tail(s)) ELSE s

RECURSIVE RStrip(_)
RStrip(s) ==
    IF s # << >> /\ IsSpace(s[Len(s)]) THEN RStrip(SubSeq(s, 1, Len(s) - 1)) ELSE s

\* s.strip()
Strip(s) == RStrip(LStrip(s))

\* code point order of the characters that occur in names
CharOrder == <<" ", "0", "1", "2", "3", "4", "5", "6", "7", "8", "9",
               "B", "C", "F", "N", "T", "Y", "b", "c", "f", "n", "t", "y">>
Ord(ch) == CHOOSE i \in 1..Len(CharOrder) : CharOrder[i] = ch

\* a < b on str
RECURSIVE StrLess(_, _)
StrLess(a, b) ==
    IF b = << >> THEN FALSE
    ELSE IF a = << >> THEN TRUE
    ELSE IF Head(a) # Head(b) THEN Ord(Head(a)) < Ord(Head(b))
    ELSE StrLess(Tail(a), Tail(b))

\* the value of a string of decimal digits
RECURSIVE Num(_)
Num(s) == IF s = << >> THEN 0
          ELSE 10 * Num(SubSeq(s, 1, Len(s) - 1)) + DigitVal(s[Len(s)])

\* int(x) succeeds: x is a str that, stripped, is a non-empty run of digits
IntOk(x) ==
    /\ x # None
    /\ Strip(x[1]) # << >>
    /\ \A i \in 1..Len(Strip(x[1])) : IsDigit(Strip(x[1])[i])

\* _parse_int: int(x), with zero and every failure mapped to None
_parse_int(x) ==
    IF IntOk(x) /\ Num(Strip(x[1])) # 0 THEN Some(Num(Strip(x[1]))) ELSE None

-----------------------------------------------------------------------------
(* Canonical keys *)

\* the character matches [a-z0-9]
IsLowerAlnum(ch) == IsDigit(ch) \/ \E i \in 1..Len(LowerChars) : LowerChars[i] = ch

\* s without the characters at its start that do not match [a-z0-9]
RECURSIVE DropRun(_)
DropRun(s) == IF s # << >> /\ ~IsLowerAlnum(Head(s)) THEN DropRun(Tail(s)) ELSE s

\* re.sub(r"[^a-z0-9]+", "_", s)
RECURSIVE SubRuns(_)
SubRuns(s) ==
    IF s = << >> THEN << >>
    ELSE IF IsLowerAlnum(Head(s)) THEN <<Head(s)>> \o SubRuns(Tail(s))
    ELSE <<"_">> \o SubRuns(DropRun(s))

\* _snakify
_snakify(s) == SubRuns(Lower(Strip(s)))

\* out[k] = v on a dict held as its items in insertion order
DictSet(out, k, v) ==
    IF \E i \in 1..Len(out) : out[i].k = k
    THEN [i \in 1..Len(out) |-> IF out[i].k = k THEN [k |-> k, v |-> v] ELSE out[i]]
    ELSE Append(out, [k |-> k, v |-> v])

\* {_snakify(k): v for k, v in d.items()}, from the items of d onto out
RECURSIVE CanoniseFold(_, _)
CanoniseFold(items, out) ==
    IF items = << >> THEN out
    ELSE CanoniseFold(Tail(items), DictSet(out, _snakify(Head(items).k), Head(items).v))

\* _canonise
_canonise(d) == CanoniseFold(d, << >>)

-----------------------------------------------------------------------------
(* Dates *)

\* s[i..] has the shape dddd-dd-dd
ShapeYmd(s) ==
    /\ Len(s) >= 10
    /\ \A i \in {1, 2, 3, 4, 6, 7, 9, 10} : IsDigit(s[i])
    /\ s[5] = "-" /\ s[8] = "-"

\* s has the shape dd-dd-dddd
ShapeDmy(s) ==
    /\ Len(s) = 10
    /\ \A i \in {1, 2, 4, 5, 7, 8, 9, 10} : IsDigit(s[i])
    /\ s[3] = "-" /\ s[6] = "-"

\* _yyyy_mm_dd: 'YYYY-MM-DD', 'DD-MM-YYYY' or ISO timestamp to 'YYYY-MM-DD'
_yyyy_mm_dd(x) ==
    IF ~TruthyStr(x) THEN None
    ELSE LET s == Strip(x[1]) IN
         IF ShapeYmd(s) /\ Len(s) >= 11 /\ s[11] \in {"T", " "}
           THEN Some(SubSeq(s, 1, 10))
         ELSE IF ShapeYmd(s) /\ Len(s) = 10 THEN Some(s)
         ELSE IF ShapeDmy(s)
           THEN Some(SubSeq(s, 7, 10) \o <<"-">> \o SubSeq(s, 4, 5) \o <<"-">>
                     \o SubSeq(s, 1, 2))
         ELSE None

IsLeap(y) == y % 4 = 0 /\ (y % 100 # 0 \/ y % 400 = 0)

DaysInMonth(y, m) ==
    IF m = 2 THEN (IF IsLeap(y) THEN 29 ELSE 28)
    ELSE IF m \in {4, 6, 9, 11} THEN 30 ELSE 31

\* datetime.strptime(d, "%Y-%m-%d") does not raise ValueError
StrptimeOk(d) ==
    /\ ShapeYmd(d) /\ Len(d) = 10
    /\ Num(SubSeq(d, 1, 4)) >= 1
    /\ Num(SubSeq(d, 6, 7)) \in 1..12
    /\ Num(SubSeq(d, 9, 10)) \in 1..DaysInMonth(Num(SubSeq(d, 1, 4)), Num(SubSeq(d, 6, 7)))

\* strptime(d, "%Y-%m-%d").strftime("%d-%m-%Y")
Dmy(d) == SubSeq(d, 9, 10) \o <<"-">> \o SubSeq(d, 6, 7) \o <<"-">> \o SubSeq(d, 1, 4)

-----------------------------------------------------------------------------
(* HTTP: _get_json and _get_csv                                            *)
(*                                                                         *)
(* One attempt of client.get ends in one of these outcomes:                *)
(*   "ok"       200, body parses           "envelope" 200, {"payLoad": ..} *)
(*   "blank"    200, empty or blank text   "badbody"  200, body unparseable*)
(*   "auth"     401 or 403                 "status"   other 4xx / 5xx      *)
(*   "quiet"    a non-200 status for which raise_for_status does not raise *)
(*              (2xx other than 200)       "exc"      transport exception  *)

\* the (headers, params) pairs of attempts, by where the key travels
Attempts == <<"header", "query">>

JsonOutcomes == {"ok", "envelope", "badbody", "auth", "status", "quiet", "exc"}
CsvOutcomes == {"ok", "blank", "badbody", "auth", "status", "quiet", "exc"}

\* the attempt did not deliver a 200 response that parses
Failed(o) == o \notin {"ok", "envelope", "blank"}

\* One pass of the body of the for loop of _get_json on outcome o:
\* ret says the function returns; last_err is the new value of last_err.
JsonStep(o, last_err) ==
    CASE o \in {"ok", "envelope"} -> [ret |-> TRUE, last_err |-> last_err]
      [] o = "auth" -> [ret |-> FALSE, last_err |-> Some("auth")]
      [] o = "quiet" -> [ret |-> FALSE, last_err |-> last_err]
      [] OTHER -> [ret |-> FALSE, last_err |-> Some(o)]

\* after the loop of _get_json: raise HTTPStatusError carrying last_err
JsonExhausted(calls, last_err) ==
    [raised |-> "upstream", value |-> << >>, calls |-> calls, last_err |-> last_err]

RECURSIVE JsonLoop(_, _, _, _)
JsonLoop(i, outs, payload, last_err) ==
    IF i > Len(Attempts) THEN JsonExhausted(i - 1, last_err)
    ELSE LET s == JsonStep(outs[i], last_err) IN
         IF s.ret
         THEN [raised |-> "", value |-> payload, calls |-> i, last_err |-> s.last_err]
         ELSE JsonLoop(i + 1, outs, payload, s.last_err)

\* _get_json(url, params): outs[i] is the outcome attempt i would have,
\* payload the parsed body (after unwrapping payLoad) of a good response.
_get_json(k, outs, payload) ==
    IF ~k THEN [raised |-> "config", value |-> << >>, calls |-> 0, last_err |-> None]
    ELSE JsonLoop(1, outs, payload, None)

\* the loop body of _get_csv taking every status below 500 as a success
CsvStepLaxStatus(o, last_err) ==
    CASE o \in {"ok", "blank", "auth", "quiet"} -> [ret |-> TRUE, last_err |-> last_err]
      [] OTHER -> [ret |-> FALSE, last_err |-> Some(o)]

\* One pass of the body of the for loop of _get_csv on outcome o.
CsvStep(o, last_err) ==
    CASE o \in {"ok", "blank"} -> [ret |-> TRUE, last_err |-> last_err]
      [] o = "auth" -> [ret |-> FALSE, last_err |-> Some("auth")]
      [] o = "quiet" -> [ret |-> FALSE, last_err |-> last_err]
      [] OTHER -> [ret |-> FALSE, last_err |-> Some(o)]

\* _get_csv that raises like _get_json once both attempts failed
CsvExhaustedRaises(calls, last_err) ==
    [raised |-> "upstream", value |-> << >>, calls |-> calls, last_err |-> last_err]

\* after the loop of _get_csv: return []
CsvExhausted(calls, last_err) ==
    [raised |-> "", value |-> << >>, calls |-> calls, last_err |-> last_err]

RECURSIVE CsvLoop(_, _, _, _)
CsvLoop(i, outs, rows, last_err) ==
    IF i > Len(Attempts) THEN CsvExhausted(i - 1, last_err)
    ELSE LET s == CsvStep(outs[i], last_err) IN
         IF s.ret
         THEN [raised |-> "",
               value |-> IF outs[i] = "blank" THEN << >> ELSE rows,
               calls |-> i, last_err |-> s.last_err]
         ELSE CsvLoop(i + 1, outs, rows, s.last_err)

\* _get_csv that goes to the network without looking at the key
GetCsvNoKeyCheck(k, outs, rows) == CsvLoop(1, outs, rows, None)

\* _get_csv(url, params): rows is what csv.DictReader yields on a good body
_get_csv(k, outs, rows) ==
    IF ~k THEN [raised |-> "config", value |-> << >>, calls |-> 0, last_err |-> None]
    ELSE CsvLoop(1, outs, rows, None)

\* The loop over attempts of _get_csv_raw from attempt i, results holding the
\* entries appended so far.  client.get is outside every try block, so its
\* exception leaves the function; a 200 whose body does not parse is caught.
RECURSIVE RawLoop(_, _, _, _)
RawLoop(i, outs, rows, results) ==
    IF i > Len(Attempts)
    THEN [raised |-> "", calls |-> i - 1, last_err |-> None,
          value |-> [ok |-> FALSE, tries |-> results]]
    ELSE IF outs[i] = "exc"
    THEN [raised |-> "transport", calls |-> i, last_err |-> None, value |-> << >>]
    ELSE IF outs[i] \in {"ok", "blank"}
    THEN [raised |-> "", calls |-> i, last_err |-> None,
          value |-> [ok |-> TRUE, status_code |-> 200,
                     first_row |-> IF outs[i] = "blank" \/ rows = << >> THEN None
                                   ELSE Some(Head(rows))]]
    ELSE IF outs[i] = "badbody"
    THEN [raised |-> "", calls |-> i, last_err |-> None,
          value |-> [ok |-> FALSE, error |-> "parse", status_code |-> 200]]
    ELSE RawLoop(i + 1, outs, rows,
                 Append(results, [attempt_headers |-> Attempts[i], status_code |-> outs[i]]))

\* _get_csv_raw(url, params)
_get_csv_raw(k, outs, rows) ==
    IF ~k THEN [raised |-> "", calls |-> 0, last_err |-> None,
                value |-> [ok |-> FALSE, error |-> "nokey"]]
    ELSE RawLoop(1, outs, rows, << >>)

\* the failed attempts among those a fetch made
FaultsOf(outs, r) == Cardinality({i \in 1..r.calls : Failed(outs[i])})

-----------------------------------------------------------------------------
(* Field extraction from a canonical record *)

\* _get_first over the values vals of the aliases the record carries:
\* the first value that is neither "" nor None
RECURSIVE _get_first(_)
_get_first(vals) ==
    IF vals = << >> THEN None
    ELSE IF TruthyStr(Head(vals)) THEN Head(vals)
    ELSE _get_first(Tail(vals))

\* _runner_number: int(str(v).strip()), zero and failures mapped to None
_runner_number(c) == _parse_int(_get_first(<<c.runner_number>>))

\* _horse_name: the raw value if it is not blank
_horse_name(c) ==
    LET v == _get_first(<<c.horse_name>>) IN
    IF v # None /\ Strip(v[1]) # << >> THEN v ELSE None

ScratchTokens == {<<"1">>, <<"t", "r", "u", "e">>, <<"y">>, <<"y", "e", "s">>, <<"t">>}

\* _is_scratched (a CSV value is never a bool)
_is_scratched(c) ==
    LET v == _get_first(<<c.scratched>>) IN
    IF v # None /\ Strip(v[1]) # << >> THEN Lower(Strip(v[1])) \in ScratchTokens
    ELSE FALSE

\* _first_track_name: first row whose track_name is not blank
RECURSIVE _first_track_name(_)
_first_track_name(rows) ==
    IF rows = << >> THEN None
    ELSE IF Head(rows).track_name # None /\ Strip(Head(rows).track_name[1]) # << >>
      THEN Some(Strip(Head(rows).track_name[1]))
    ELSE _first_track_name(Tail(rows))

-----------------------------------------------------------------------------
(* Meeting discovery *)

\* the key without .lower()
MeetingKeyCaseSensitive(mid, venue) ==
    <<IF TruthyInt(mid) THEN mid[1] ELSE 0,
      IF TruthyStr(venue) THEN venue[1] ELSE << >>>>

\* f"{mid or 0}|{(venue or '').lower()}": mid is an int, so the text before
\* the first "|" and the text after it determine the key, and a pair models it
MeetingKey(mid, venue) ==
    <<IF TruthyInt(mid) THEN mid[1] ELSE 0,
      Lower(IF TruthyStr(venue) THEN venue[1] ELSE << >>)>>

\* the queries with the first two in the other order
TriesDateFirst == << [param |-> "date", fmt |-> "ymd"],
                     [param |-> "meetingDate", fmt |-> "ymd"],
                     [param |-> "meeting_date", fmt |-> "ymd"],
                     [param |-> "meetingDate", fmt |-> "dmy"],
                     [param |-> "date", fmt |-> "dmy"] >>

\* the five queries of _meetings_from_meeting_csv, in order
Tries == << [param |-> "meetingDate", fmt |-> "ymd"],
            [param |-> "date", fmt |-> "ymd"],
            [param |-> "meeting_date", fmt |-> "ymd"],
            [param |-> "meetingDate", fmt |-> "dmy"],
            [param |-> "date", fmt |-> "dmy"] >>

\* venue of a listing row: venue or track or course or meeting
ListingVenue(c) == OrStr(OrStr(OrStr(c.venue, c.track), c.course), c.meeting)

\* The loop over the rows of one listing response, from (sn, out).
RECURSIVE ListingFold(_, _, _)
ListingFold(rows, sn, out) ==
    IF rows = << >> THEN [seen |-> sn, out |-> out]
    ELSE LET c == Head(rows)
             mid == _parse_int(c.meeting_id)
             venue == ListingVenue(c)
             k == MeetingKey(mid, venue)
         IN IF k \in sn THEN ListingFold(Tail(rows), sn, out)
            ELSE ListingFold(Tail(rows), sn \cup {k},
                             Append(out, [meeting_id |-> mid, meeting |-> venue]))

\* the date field of a scratchings record
ScrDate(c) == OrStr(OrStr(OrStr(c.meeting_date, c.meetingdate), c.meetingdateutc), c.timestamp)

\* the date field of a conditions record
CondDate(c) == OrStr(OrStr(OrStr(c.meeting_date, c.meetingdate), c.last_update), c.timestamp)

\* mdate of a record whose date field is raw, for the target ymd
RecordDate(raw, c, ymd) ==
    IF _yyyy_mm_dd(raw) # None THEN _yyyy_mm_dd(raw)
    ELSE _yyyy_mm_dd(OrStr(c.meeting_date, Some(Dmy(ymd))))

\* out.setdefault(mid, m), out kept in insertion order
SetDefault(out, m) ==
    IF \E i \in 1..Len(out) : out[i].meeting_id = m.meeting_id THEN out
    ELSE Append(out, m)

\* the loop body leaving the loop's result alone once it has an entry
UpdatesStepFirstOnly(c, raw, ymd, out) ==
    LET mid == OrInt(_parse_int(c.meeting_id), _parse_int(c.meetingid))
        venue == OrStr(c.track, c.venue)
    IN IF out # << >> \/ RecordDate(raw, c, ymd) # Some(ymd) THEN out
       ELSE IF TruthyInt(mid) THEN SetDefault(out, [meeting_id |-> mid, meeting |-> venue])
       ELSE out

\* The body of the loop over one updates record c with date field raw.
UpdatesStep(c, raw, ymd, out) ==
    LET mid == OrInt(_parse_int(c.meeting_id), _parse_int(c.meetingid))
        venue == OrStr(c.track, c.venue)
    IN IF RecordDate(raw, c, ymd) # Some(ymd) THEN out
       ELSE IF TruthyInt(mid) THEN SetDefault(out, [meeting_id |-> mid, meeting |-> venue])
       ELSE out

\* The loop over the records of one updates feed ("scr" or "cond").
RECURSIVE UpdatesFold(_, _, _, _)
UpdatesFold(items, feed, ymd, out) ==
    IF items = << >> THEN out
    ELSE LET c == Head(items)
             raw == IF feed = "scr" THEN ScrDate(c) ELSE CondDate(c)
         IN UpdatesFold(Tail(items), feed, ymd, UpdatesStep(c, raw, ymd, out))

\* The loop of _meetings_for_date over a + b, from (sn, out).
RECURSIVE UnionFold(_, _, _)
UnionFold(ms, sn, out) ==
    IF ms = << >> THEN out
    ELSE LET k == MeetingKey(Head(ms).meeting_id, Head(ms).meeting) IN
         IF k \in sn THEN UnionFold(Tail(ms), sn, out)
         ELSE UnionFold(Tail(ms), sn \cup {k}, Append(out, Head(ms)))

\* _meetings_for_date, given the results a and b of the two sources
_meetings_for_date(a, b) == UnionFold(a \o b, {}, << >>)

\* _meetings_from_meeting_csv when every query is answered: the loop over
\* tries from query i, ly and ld being the rows served per date format
RECURSIVE TriesFold(_, _, _, _, _)
TriesFold(i, ly, ld, sn, out) ==
    IF i > Len(Tries) THEN out
    ELSE LET f == ListingFold(IF Tries[i].fmt = "ymd" THEN ly ELSE ld, sn, out)
         IN TriesFold(i + 1, ly, ld, f.seen, f.out)

\* _meetings_from_updates when both feeds are answered
_meetings_from_updates(scr, cond, ymd) ==
    UpdatesFold(cond, "cond", ymd, UpdatesFold(scr, "scr", ymd, << >>))

\* discovery as a function of what the upstream holds
Discover(ly, ld, scr, cond, ymd) ==
    _meetings_for_date(TriesFold(1, ly, ld, {}, << >>), _meetings_from_updates(scr, cond, ymd))

-----------------------------------------------------------------------------
(* Gear extraction and grouping *)

\* range(1, 16) ends at race 15
LastRace == 15

\* the number of consecutive empty races at which the loop breaks
EmptyLimit == 2

\* consecutive_empty that a race with data does not reset
NextEmptyNoReset(rows, ce) == IF rows = << >> THEN ce + 1 ELSE ce

\* consecutive_empty after a race that returned rows
NextEmpty(rows, ce) == IF rows = << >> THEN ce + 1 ELSE 0

\* meeting_name taken from every race that has a track name
NextNameLatest(rows, name) ==
    IF rows # << >> THEN OrStr(_first_track_name(rows), name) ELSE name

\* meeting_name after a race that returned rows (pf_gear.py:312)
NextName(rows, name) ==
    IF rows # << >> /\ name = None THEN OrStr(_first_track_name(rows), name) ELSE name

\* the gear row filed under the race number the record carries, if any
GearRowOwnRace(c, r) ==
    [race_number |-> IF _parse_int(c.race_number) # None THEN _parse_int(c.race_number)[1]
                     ELSE r,
     runner_number |-> _runner_number(c),
     horse_name |-> _horse_name(c),
     runner_id |-> _parse_int(c.runner_id),
     gear_change |-> Strip(c.gearchanges[1])]

\* the gear row of a canonical record c of race r (pf_gear.py:327)
GearRow(c, r) ==
    [race_number |-> r,
     runner_number |-> _runner_number(c),
     horse_name |-> _horse_name(c),
     runner_id |-> _parse_int(c.runner_id),
     gear_change |-> Strip(c.gearchanges[1])]

\* the tests of the loop over rows without the scratched test
KeptIgnoringScratched(c) == c.gearchanges # None /\ Strip(c.gearchanges[1]) # << >>

\* the row passes the tests of the loop over rows: gear text, not scratched
Kept(c) ==
    /\ c.gearchanges # None /\ Strip(c.gearchanges[1]) # << >>
    /\ ~_is_scratched(c)

\* The loop over the rows of one race r, appending to acc.
RECURSIVE RowsFold(_, _, _)
RowsFold(rows, r, acc) ==
    IF rows = << >> THEN acc
    ELSE IF Kept(Head(rows)) THEN RowsFold(Tail(rows), r, Append(acc, GearRow(Head(rows), r)))
    ELSE RowsFold(Tail(rows), r, acc)

\* r.get("horse_name") or r.get("runner_id")
HasIdentity(r) == TruthyStr(r.horse_name) \/ TruthyInt(r.runner_id)

\* the runner entry of a gear row (without race_number)
Runner(r) ==
    [runner_number |-> r.runner_number, horse_name |-> r.horse_name,
     runner_id |-> r.runner_id, gear_change |-> r.gear_change]

\* the sort key of a runner entry
SortKey(x) ==
    <<x.runner_number = None,
      IF TruthyInt(x.runner_number) THEN x.runner_number[1] ELSE 0,
      Lower(IF TruthyStr(x.horse_name) THEN x.horse_name[1] ELSE << >>)>>

\* a < b on sort keys (tuples compare lexicographically, False < True)
KeyLess(a, b) ==
    IF a[1] # b[1] THEN b[1]
    ELSE IF a[2] # b[2] THEN a[2] < b[2]
    ELSE StrLess(a[3], b[3])

\* insert x after every element that is not greater (keeps sorted stable)
RECURSIVE Insert(_, _)
Insert(s, x) ==
    IF s = << >> THEN <<x>>
    ELSE IF KeyLess(SortKey(x), SortKey(Head(s))) THEN <<x>> \o s
    ELSE <<Head(s)>> \o Insert(Tail(s), x)

\* sorted(rows, key = ...)
RECURSIVE Sorted(_)
Sorted(s) == IF s = << >> THEN << >>
             ELSE Insert(Sorted(SubSeq(s, 1, Len(s) - 1)), s[Len(s)])

IsRace(rows, r) == LET T(x) == x.race_number = r IN SelectSeq(rows, T)

ToRunners(rows) == [i \in 1..Len(rows) |-> Runner(rows[i])]

\* races_out: one entry per race number present in rows, ascending from r
RECURSIVE RacesOut(_, _)
RacesOut(rows, r) ==
    IF r > LastRace THEN << >>
    ELSE IF IsRace(rows, r) = << >> THEN RacesOut(rows, r + 1)
    ELSE <<[race_number |-> r, runners |-> Sorted(ToRunners(IsRace(rows, r)))]>>
         \o RacesOut(rows, r + 1)

\* the entry with one race object per race number of the loop
MeetingOutEveryRace(m, rows, track_name) ==
    [meeting_id |-> m.meeting_id,
     meeting |-> OrStr(track_name, m.meeting),
     races |-> [r \in 1..LastRace |->
                  [race_number |-> r,
                   runners |-> Sorted(ToRunners(IsRace(SelectSeq(rows, HasIdentity), r)))]]]

\* the entry fetch_gear_for_date appends for a meeting with a meeting_id,
\* from the rows collected and the track name
MeetingOut(m, rows, track_name) ==
    [meeting_id |-> m.meeting_id,
     meeting |-> OrStr(track_name, m.meeting),
     races |-> RacesOut(SelectSeq(rows, HasIdentity), 1)]

\* the pass-through entry without the venue
PassedOutNoVenue(m) == [meeting_id |-> None, meeting |-> None, races |-> << >>]

\* the entry appended for a meeting without meeting_id
PassedOut(m) == [meeting_id |-> None, meeting |-> m.meeting, races |-> << >>]

-----------------------------------------------------------------------------
(* The upstream: the data the provider holds during one run *)

MaxItems == 2       \* meeting rows and update records the upstream holds together
MaxFormRows == 2    \* rows of varied content the form endpoint holds for one race
MaxDataRace == 6    \* highest race number of a meeting with gaps in its races
MaxFaults == 2      \* failed HTTP attempts in one run

Target == <<"2", "0", "2", "5", "-", "0", "6", "-", "0", "1">>
Iso == Target \o <<"T", "0", "8">>
OtherDmy == <<"0", "2", "-", "0", "6", "-", "2", "0", "2", "5">>
\* matches the pattern main.py accepts, and is no calendar date
BadDate == <<"2", "0", "2", "5", "-", "0", "6", "-", "3", "1">>

Dates == {Target, BadDate}

ListingRow(mid, venue, track) ==
    [meeting_id |-> mid, venue |-> venue, track |-> track, course |-> None, meeting |-> None]

ListingRows ==
    { ListingRow(Some(<<"1">>), Some(<<"F">>), None),
      ListingRow(Some(<<"1">>), Some(<<"f">>), None),
      ListingRow(Some(<<"0">>), Some(<< >>), Some(<<"C">>)) }

UpdateRec(md, ts, mid, mid2, track, venue) ==
    [meeting_date |-> md, meetingdate |-> None, meetingdateutc |-> None,
     timestamp |-> ts, last_update |-> None, meeting_id |-> mid, meetingid |-> mid2,
     track |-> track, venue |-> venue]

UpdateRecs ==
    { UpdateRec(Some(Target), None, Some(<<"1">>), None, Some(<<"f">>), None),
      UpdateRec(None, Some(Iso), None, Some(<<"1">>), None, Some(<<"C">>)),
      UpdateRec(Some(OtherDmy), None, Some(<<"2">>), None, Some(<<"C">>), None),
      UpdateRec(None, None, Some(<<"2">>), None, None, Some(<<"C">>)) }

FormRow(gear, scr, horse, rid, num, track, race) ==
    [gearchanges |-> gear, scratched |-> scr, horse_name |-> horse, runner_id |-> rid,
     runner_number |-> num, track_name |-> track, race_number |-> race]

G1 == FormRow(Some(<<"B">>), None, Some(<<"f">>), None, Some(<<"4">>), None, None)

G2 == FormRow(Some(<<"T">>), None, Some(<<"b">>), None, Some(<<"1">>), Some(<<"F">>),
              Some(<<"2">>))

FormRows ==
    { G1,
      FormRow(Some(<<" ", "T", " ">>), Some(<<"n">>), None, Some(<<"7">>), None,
              Some(<<"C">>), Some(<<"9">>)),
      FormRow(Some(<<"B">>), Some(<<" ", "Y", " ">>), Some(<<"c">>), None, Some(<<"1">>),
              None, None),
      FormRow(Some(<<" ">>), None, Some(<<"f">>), None, Some(<<"3">>), None, None),
      FormRow(Some(<<"B">>), None, Some(<<" ">>), Some(<<"0">>), Some(<<"5">>), None, None),
      FormRow(Some(<<"T">>), Some(<< >>), Some(<<"C">>), None, Some(<<"2">>), None, None),
      FormRow(Some(<<"B">>), None, Some(<<"F">>), None, Some(<<"4">>), None, None) }

SeqsUpTo(S, n) == UNION {[1..k -> S] : k \in 0..n}

\* pairs of sequences over S with at most n elements together
PairsUpTo(S, n) ==
    {p \in SeqsUpTo(S, n) \X SeqsUpTo(S, n) : Len(p[1]) + Len(p[2]) <= n}

Mids == {1, 2}
Races == 1..LastRace
NoForm == [m \in Mids |-> [r \in Races |-> << >>]]

\* meeting 1 has data in the races of S, or in every race
PatternForms ==
    {[r \in Races |-> IF r \in S THEN <<G1>> ELSE << >>] : S \in SUBSET (1..MaxDataRace)}
    \cup {[r \in Races |-> <<G1>>]}

\* meeting 1 has rows of any content in race 1, and one row in race 2
ContentForms ==
    {[r \in Races |-> IF r = 1 THEN s ELSE IF r = 2 THEN <<G2>> ELSE << >>] :
        s \in SeqsUpTo(FormRows, MaxFormRows)}

MaxKeyLen == 3      \* characters of a raw key

\* a capital, a small letter, a digit, white space, punctuation, underscore
KeyChars == {"C", "b", "1", " ", "-", "_"}

RawKeys == SeqsUpTo(KeyChars, MaxKeyLen)

\* raw records of up to two fields, among them keys that canonicalize alike
FieldKeys == { <<"C">>, <<"c">>, <<"c", "-">>, <<"b", " ", "1">>, <<"b", "_", "1">> }
Fields == {[k |-> k, v |-> v] : k \in FieldKeys, v \in {<<"1">>, <<"T">>}}
RawRecords == {d \in SeqsUpTo(Fields, 2) : Len(d) = 2 => d[1].k # d[2].k}

MaxRequests == 3    \* requests the server handles, concurrently or one after another

Reqs == 1..MaxRequests

NextDay == <<"2", "0", "2", "5", "-", "0", "6", "-", "0", "2">>

\* the dates today_mel_str() may give while the server runs
Todays == {Target, NextDay}

\* the values of the date parameter that pass the pattern of main.py:38
DateArgs == {Target, NextDay, BadDate}

\* meeting lists fetch_gear_for_date may return: none, or one passed through
Contents == { << >>, <<[meeting_id |-> None, meeting |-> Some(<<"C">>), races |-> << >>]>> }

Idle == [pc |-> "idle"]

NoFetch == [fn |-> "", outs |-> <<"ok", "ok">>, data |-> << >>,
            res |-> [raised |-> "", value |-> << >>, calls |-> 0, last_err |-> None]]

InitState ==
    /\ pc = "call"
    /\ q = 1
    /\ seen = {}
    /\ lst_out = << >>
    /\ upd_out = << >>
    /\ meetings = << >>
    /\ mi = 1
    /\ rn = 1
    /\ consecutive_empty = 0
    /\ all_rows = << >>
    /\ meeting_name = None
    /\ out_meetings = << >>
    /\ result = None
    /\ err = ""
    /\ netCalls = 0
    /\ faults = 0
    /\ qlog = << >>
    /\ GEAR_CACHE = << >>
    /\ reqs = [r \in Reqs |-> Idle]

InitRun == InitState /\ lastFetch = NoFetch

\* many meetings, no form data
InitDiscovery ==
    /\ \E p \in PairsUpTo(ListingRows, MaxItems) : listingYmd = p[1] /\ listingDmy = p[2]
    /\ \E p \in PairsUpTo(UpdateRecs, MaxItems) : scrFeed = p[1] /\ condFeed = p[2]
    /\ Len(listingYmd) + Len(listingDmy) + Len(scrFeed) + Len(condFeed) <= MaxItems
    /\ form = NoForm

\* one meeting with an id after one without, with form data
InitGear ==
    /\ listingYmd = <<ListingRow(Some(<<"0">>), Some(<< >>), Some(<<"C">>)),
                      ListingRow(Some(<<"1">>), Some(<<"F">>), None)>>
    /\ listingDmy = << >>
    /\ scrFeed = << >>
    /\ condFeed = << >>
    /\ \E f \in PatternForms \cup ContentForms :
          form = [m \in Mids |-> IF m = 1 THEN f ELSE [r \in Races |-> << >>]]

Init ==
    /\ key \in BOOLEAN
    /\ date \in Dates
    /\ (InitDiscovery \/ InitGear)
    /\ InitRun

\* stand-alone calls of the two fetchers
InitFetch ==
    /\ key \in BOOLEAN
    /\ date = Target
    /\ listingYmd \in SeqsUpTo(ListingRows, 1)
    /\ listingDmy = << >>
    /\ scrFeed \in SeqsUpTo(UpdateRecs, 1)
    /\ condFeed = << >>
    /\ form = NoForm
    /\ InitRun

-----------------------------------------------------------------------------
(* fetch_gear_for_date, one action per upstream fetch *)

\* The outcomes two attempts at a CSV resource holding rows may have: a 200
\* response carries what the upstream holds, so it is blank only if there are
\* no rows.  The second outcome is listed only after a first that failed.
CsvOuts(rows) ==
    {o \in CsvOutcomes \X CsvOutcomes :
        /\ \A i \in 1..2 : o[i] = "blank" => rows = << >>
        /\ ~Failed(o[1]) => o[2] = o[1]}

\* the outcomes two attempts at a JSON resource may have
JsonOuts == {o \in JsonOutcomes \X JsonOutcomes : ~Failed(o[1]) => o[2] = o[1]}

Report(ms) == Some([date |-> date, meetings |-> ms])

\* a fetch call: endpoint, try index or meeting index, race number, and the
\* number of rows or records the fetch returned
Call(ep, a, b, n) == [ep |-> ep, a |-> a, b |-> b, n |-> n]

\* the fetch r made with outcomes outs is accounted for
Account(outs, r) ==
    /\ faults + FaultsOf(outs, r) <= MaxFaults
    /\ faults' = faults + FaultsOf(outs, r)
    /\ netCalls' = netCalls + r.calls

\* fetch_gear_for_date is entered; strptime of _meetings_from_meeting_csv
Enter ==
    /\ pc = "call"
    /\ IF StrptimeOk(date)
       THEN pc' = "listing" /\ err' = err
       ELSE pc' = "failed" /\ err' = "value"
    /\ UNCHANGED <<serverVars, upstreamVars, q, seen, lst_out, upd_out, meetings, mi, rn,
                   consecutive_empty, all_rows, meeting_name, out_meetings, result,
                   netCalls, faults, qlog, lastFetch>>

\* one pass of the loop over tries of _meetings_from_meeting_csv
ListingQuery ==
    /\ pc = "listing"
    /\ LET rows == IF Tries[q].fmt = "ymd" THEN listingYmd ELSE listingDmy IN
       \E outs \in CsvOuts(rows) :
          LET r == _get_csv(key, outs, rows)
              f == ListingFold(r.value, seen, lst_out)
          IN /\ Account(outs, r)
             /\ qlog' = Append(qlog, Call("listing", q, 0, Len(r.value)))
             /\ IF r.raised # ""
                THEN /\ pc' = "failed" /\ err' = r.raised
                     /\ UNCHANGED <<q, seen, lst_out>>
                ELSE /\ seen' = f.seen /\ lst_out' = f.out /\ err' = err
                     /\ IF q < Len(Tries) THEN pc' = pc /\ q' = q + 1
                        ELSE pc' = "scratchings" /\ q' = q
    /\ UNCHANGED <<serverVars, upstreamVars, upd_out, meetings, mi, rn, consecutive_empty, all_rows,
                   meeting_name, out_meetings, result, lastFetch>>

\* the scratchings half of _meetings_from_updates
ScratchingsQuery ==
    /\ pc = "scratchings"
    /\ \E outs \in JsonOuts :
          LET r == _get_json(key, outs, scrFeed) IN
          /\ Account(outs, r)
          /\ qlog' = Append(qlog, Call("scratchings", 0, 0, Len(r.value)))
          /\ IF r.raised # ""
             THEN pc' = "failed" /\ err' = r.raised /\ upd_out' = upd_out
             ELSE /\ pc' = "conditions" /\ err' = err
                  /\ upd_out' = UpdatesFold(r.value, "scr", date, upd_out)
    /\ UNCHANGED <<serverVars, upstreamVars, q, seen, lst_out, meetings, mi, rn, consecutive_empty,
                   all_rows, meeting_name, out_meetings, result, lastFetch>>

\* the conditions half of _meetings_from_updates, then the union of
\* _meetings_for_date; fetch_gear_for_date returns here if there is no meeting
ConditionsQuery ==
    /\ pc = "conditions"
    /\ \E outs \in JsonOuts :
          LET r == _get_json(key, outs, condFeed)
              b == UpdatesFold(r.value, "cond", date, upd_out)
              ms == _meetings_for_date(lst_out, b)
          IN /\ Account(outs, r)
             /\ qlog' = Append(qlog, Call("conditions", 0, 0, Len(r.value)))
             /\ IF r.raised # ""
                THEN /\ pc' = "failed" /\ err' = r.raised
                     /\ UNCHANGED <<upd_out, meetings, result>>
                ELSE /\ upd_out' = b /\ meetings' = ms /\ err' = err
                     /\ IF ms = << >> THEN pc' = "done" /\ result' = Report(<< >>)
                        ELSE pc' = "meetings" /\ result' = result
    /\ UNCHANGED <<serverVars, upstreamVars, q, seen, lst_out, mi, rn, consecutive_empty, all_rows,
                   meeting_name, out_meetings, lastFetch>>

\* the loop putting the entry in front of out_meetings
NextMeetingPrepend(e) ==
    /\ out_meetings' = <<e>> \o out_meetings
    /\ mi' = mi + 1
    /\ rn' = 1
    /\ consecutive_empty' = 0
    /\ all_rows' = << >>
    /\ meeting_name' = None
    /\ IF mi = Len(meetings)
       THEN pc' = "done" /\ result' = Report(<<e>> \o out_meetings)
       ELSE pc' = pc /\ result' = result

\* the loop of fetch_gear_for_date moves past meeting mi with entry e
NextMeeting(e) ==
    /\ out_meetings' = Append(out_meetings, e)
    /\ mi' = mi + 1
    /\ rn' = 1
    /\ consecutive_empty' = 0
    /\ all_rows' = << >>
    /\ meeting_name' = None
    /\ IF mi = Len(meetings)
       THEN pc' = "done" /\ result' = Report(Append(out_meetings, e))
       ELSE pc' = pc /\ result' = result

\* a meeting without meeting_id is passed through
PassThrough ==
    /\ pc = "meetings"
    /\ ~TruthyInt(meetings[mi].meeting_id)
    /\ NextMeeting(PassedOut(meetings[mi]))
    /\ UNCHANGED <<serverVars, upstreamVars, q, seen, lst_out, upd_out, meetings, err, netCalls,
                   faults, qlog, lastFetch>>

\* one pass of the loop over race numbers of _gear_from_meeting_csv; when
\* the loop ends, the rest of the loop body of fetch_gear_for_date
GearQuery ==
    /\ pc = "meetings"
    /\ TruthyInt(meetings[mi].meeting_id)
    /\ LET m == meetings[mi]
           src == form[m.meeting_id[1]][rn]
       IN \E outs \in CsvOuts(src) :
          LET r == _get_csv(key, outs, src)
              rows == r.value
              ce == NextEmpty(rows, consecutive_empty)
              name == NextName(rows, meeting_name)
              acc == IF rows = << >> THEN all_rows ELSE RowsFold(rows, rn, all_rows)
          IN /\ Account(outs, r)
             /\ qlog' = Append(qlog, Call("form", mi, rn, Len(r.value)))
             /\ IF ce >= EmptyLimit \/ rn = LastRace
                THEN NextMeeting(MeetingOut(m, acc, name))
                ELSE /\ rn' = rn + 1
                     /\ consecutive_empty' = ce
                     /\ all_rows' = acc
                     /\ meeting_name' = name
                     /\ UNCHANGED <<pc, mi, out_meetings, result>>
    /\ UNCHANGED <<serverVars, upstreamVars, q, seen, lst_out, upd_out, meetings, err, lastFetch>>

\* _get_json is called on the scratchings feed, with any two outcomes
GetJsonCall ==
    /\ \E outs \in JsonOutcomes \X JsonOutcomes :
          lastFetch' = [fn |-> "_get_json", outs |-> outs, data |-> scrFeed,
                        res |-> _get_json(key, outs, scrFeed)]
    /\ UNCHANGED <<serverVars, upstreamVars, pc, q, seen, lst_out, upd_out, meetings, mi, rn,
                   consecutive_empty, all_rows, meeting_name, out_meetings, result, err,
                   netCalls, faults, qlog>>

\* _get_csv is called on the meeting listing, with any two outcomes
GetCsvCall ==
    /\ \E outs \in CsvOutcomes \X CsvOutcomes :
          lastFetch' = [fn |-> "_get_csv", outs |-> outs, data |-> listingYmd,
                        res |-> _get_csv(key, outs, listingYmd)]
    /\ UNCHANGED <<serverVars, upstreamVars, pc, q, seen, lst_out, upd_out, meetings, mi, rn,
                   consecutive_empty, all_rows, meeting_name, out_meetings, result, err,
                   netCalls, faults, qlog>>

\* debug_form_csv: _get_csv_raw is called on the form of race 0, which the
\* upstream may or may not hold rows for, with any two outcomes
GetCsvRawCall ==
    /\ \E outs \in CsvOutcomes \X CsvOutcomes : \E rows \in {<< >>, <<G1>>} :
          lastFetch' = [fn |-> "_get_csv_raw", outs |-> outs, data |-> rows,
                        res |-> _get_csv_raw(key, outs, rows)]
    /\ UNCHANGED <<serverVars, upstreamVars, pc, q, seen, lst_out, upd_out, meetings, mi, rn,
                   consecutive_empty, all_rows, meeting_name, out_meetings, result, err,
                   netCalls, faults, qlog>>

\* stand-alone calls of _snakify and _canonise on an argument
InitCanon ==
    /\ key = TRUE
    /\ date = Target
    /\ listingYmd = << >> /\ listingDmy = << >>
    /\ scrFeed = << >> /\ condFeed = << >>
    /\ form = NoForm
    /\ InitState
    /\ \/ \E k \in RawKeys : lastFetch = [fn |-> "", arg |-> "key", data |-> k]
       \/ \E d \in RawRecords : lastFetch = [fn |-> "", arg |-> "record", data |-> d]

\* _snakify(k)
SnakifyCall ==
    /\ lastFetch.fn = "" /\ lastFetch.arg = "key"
    /\ lastFetch' = [fn |-> "_snakify", arg |-> "key", data |-> lastFetch.data,
                     res |-> _snakify(lastFetch.data)]
    /\ UNCHANGED <<serverVars, upstreamVars, pc, q, seen, lst_out, upd_out, meetings, mi, rn,
                   consecutive_empty, all_rows, meeting_name, out_meetings, result, err,
                   netCalls, faults, qlog>>

\* _canonise(d)
CanoniseCall ==
    /\ lastFetch.fn = "" /\ lastFetch.arg = "record"
    /\ lastFetch' = [fn |-> "_canonise", arg |-> "record", data |-> lastFetch.data,
                     res |-> _canonise(lastFetch.data)]
    /\ UNCHANGED <<serverVars, upstreamVars, pc, q, seen, lst_out, upd_out, meetings, mi, rn,
                   consecutive_empty, all_rows, meeting_name, out_meetings, result, err,
                   netCalls, faults, qlog>>

NextCanon == SnakifyCall \/ CanoniseCall

SpecCanon == InitCanon /\ [][NextCanon]_vars

-----------------------------------------------------------------------------
(* main.py: gear_daily and gear_today.  The handlers are coroutines of one  *)
(* event loop: a handler runs without interruption up to its await of       *)
(* fetch_gear_for_date, and from the return of that await to its end.       *)

\* what await fetch_gear_for_date(d) may end in: strptime raises ValueError,
\* the first _get_csv raises RuntimeError without a key, _get_json raises
\* HTTPStatusError, or a report for d is returned (pf_gear.py:393)
FetchOutcomes(d) ==
    IF ~StrptimeOk(d) THEN {[raised |-> "value"]}
    ELSE IF ~key THEN {[raised |-> "config"]}
    ELSE {[raised |-> "upstream"]}
         \cup {[raised |-> "", data |-> [date |-> d, meetings |-> c]] : c \in Contents}

\* cache[d] = data
Put(cache, d, data) ==
    [x \in (DOMAIN cache) \cup {d} |-> IF x = d THEN data ELSE cache[x]]

\* the test looking at the cache alone
CacheHitIgnoringWarm(cache, d, warm) == d \in DOMAIN cache

\* not warm and d in GEAR_CACHE (main.py:53)
CacheHit(cache, d, warm) == ~warm /\ d \in DOMAIN cache

\* the cache written whatever the fetch ended in
CacheAfterAnyOutcome(cache, d, out) ==
    Put(cache, d, IF out.raised = "" THEN out.data ELSE [date |-> d, meetings |-> << >>])

\* GEAR_CACHE after main.py:56-61, out being what the fetch ended in
CacheAfter(cache, d, out) == IF out.raised = "" THEN Put(cache, d, out.data) ELSE cache

\* the response after main.py:56-62: the report, 502 for HTTPStatusError,
\* and 500 for an exception the handler does not catch
Response(out) ==
    IF out.raised = "" THEN [status |-> 200, body |-> out.data]
    ELSE IF out.raised = "upstream" THEN [status |-> 502, body |-> << >>]
    ELSE [status |-> 500, body |-> << >>]

\* gear_daily(date = d, warm) up to its return or its await (main.py:53-57)
Handle(r, d, warm) ==
    /\ reqs[r].pc = "idle"
    /\ IF CacheHit(GEAR_CACHE, d, warm)
       THEN reqs' = [reqs EXCEPT ![r] = [pc |-> "done", d |-> d, warm |-> warm, calls |-> 0,
                                         status |-> 200, body |-> GEAR_CACHE[d]]]
       ELSE reqs' = [reqs EXCEPT ![r] = [pc |-> "fetching", d |-> d, warm |-> warm,
                                         calls |-> 1]]
    /\ GEAR_CACHE' = GEAR_CACHE

\* GET /gear/daily: d = date or today_mel_str()
GearDaily ==
    /\ \E r \in Reqs : \E arg \in {None} \cup {Some(a) : a \in DateArgs} :
       \E today \in Todays : \E warm \in BOOLEAN :
          Handle(r, IF arg = None THEN today ELSE arg[1], warm)
    /\ UNCHANGED <<upstreamVars, pc, q, seen, lst_out, upd_out, meetings, mi, rn,
                   consecutive_empty, all_rows, meeting_name, out_meetings, result, err,
                   netCalls, faults, qlog, lastFetch>>

\* GET /gear/today: gear_daily(date = today_mel_str(), warm = warm)
GearToday ==
    /\ \E r \in Reqs : \E today \in Todays : \E warm \in BOOLEAN : Handle(r, today, warm)
    /\ UNCHANGED <<upstreamVars, pc, q, seen, lst_out, upd_out, meetings, mi, rn,
                   consecutive_empty, all_rows, meeting_name, out_meetings, result, err,
                   netCalls, faults, qlog, lastFetch>>

\* the await of fetch_gear_for_date of a request ends, and the handler runs
\* to its end (main.py:57-62)
FetchReturn ==
    /\ \E r \in Reqs :
          /\ reqs[r].pc = "fetching"
          /\ \E out \in FetchOutcomes(reqs[r].d) :
                /\ GEAR_CACHE' = CacheAfter(GEAR_CACHE, reqs[r].d, out)
                /\ reqs' = [reqs EXCEPT ![r] =
                              [pc |-> "done", d |-> reqs[r].d, warm |-> reqs[r].warm,
                               calls |-> reqs[r].calls,
                               status |-> Response(out).status, body |-> Response(out).body]]
    /\ UNCHANGED <<upstreamVars, pc, q, seen, lst_out, upd_out, meetings, mi, rn,
                   consecutive_empty, all_rows, meeting_name, out_meetings, result, err,
                   netCalls, faults, qlog, lastFetch>>

InitServer ==
    /\ key \in BOOLEAN
    /\ date = Target
    /\ listingYmd = << >> /\ listingDmy = << >>
    /\ scrFeed = << >> /\ condFeed = << >>
    /\ form = NoForm
    /\ InitRun

NextServer == GearDaily \/ GearToday \/ FetchReturn

SpecServer == InitServer /\ [][NextServer]_vars

NextFetch == GetJsonCall \/ GetCsvCall \/ GetCsvRawCall

SpecFetch == InitFetch /\ [][NextFetch]_vars

Next == Enter \/ ListingQuery \/ ScratchingsQuery \/ ConditionsQuery
           \/ PassThrough \/ GearQuery

Spec == Init /\ [][Next]_vars

-----------------------------------------------------------------------------
(* Properties *)

Last(s) == s[Len(s)]

\* the per-race queries issued for the meeting at index m, in order
FormCalls(m) == LET T(c) == c.ep = "form" /\ c.a = m IN SelectSeq(qlog, T)

\* the loop of fetch_gear_for_date is past the meeting at index m
Finished(m) == pc = "done" \/ (pc = "meetings" /\ m < mi)

\* C1 as stated: without an API key fetch_gear_for_date fails with the
\* configuration error, having made no network call and returned no report.
C1_Claimed ==
    ~key => /\ netCalls = 0
            /\ result = None
            /\ pc \in {"call", "listing", "failed"}
            /\ (pc = "failed" => err = "config")

\* C1 amended: without an API key fetch_gear_for_date makes no network call,
\* completes no listing query and returns no report; it fails with the
\* configuration error if the date is a calendar date, and with the date
\* parsing error (before the key is looked at) if it is not.
C1_NoKeyNoNetwork ==
    ~key => /\ netCalls = 0
            /\ result = None
            /\ pc \in {"call", "listing", "failed"}
            /\ (pc = "listing" => q = 1)
            /\ (pc = "failed" => err = IF StrptimeOk(date) THEN "config" ELSE "value")

\* the run without key has failed at the first listing query
C1_Witness == ~key /\ pc = "failed" /\ err = "config" /\ Len(qlog) = 1

\* C2: per-race queries of a meeting go 1, 2, 3, ... in order; no query
\* follows two consecutive empty answers; and the loop goes on until then
\* (or race 15), so one empty answer between two with data does not stop it.
C2_EarlyStop ==
    \A m \in 1..Len(meetings) :
        LET F == FormCalls(m) IN
        /\ \A i \in 1..Len(F) : F[i].b = i
        /\ \A i \in 1..(Len(F) - 1) : (F[i].n = 0 /\ F[i + 1].n = 0) => i + 1 = Len(F)
        /\ (Finished(m) /\ meetings[m].meeting_id # None) =>
              \/ Len(F) = 15
              \/ (Len(F) >= 2 /\ F[Len(F) - 1].n = 0 /\ F[Len(F)].n = 0)

\* data for races 1-3, nothing for 4 and 5, data waiting at 6: five queries
C2_Witness ==
    \E m \in 1..Len(meetings) :
        /\ Finished(m) /\ meetings[m].meeting_id # None
        /\ form[meetings[m].meeting_id[1]][6] # << >>
        /\ Len(FormCalls(m)) = 5
        /\ \A i \in 1..3 : FormCalls(m)[i].n > 0

C4_Claimed ==
    (lastFetch.fn = "_get_json" /\ key) =>
        LET o == lastFetch.outs
            r == lastFetch.res
        IN /\ r.calls \in 1..2
           /\ ~Failed(o[1]) => (r.calls = 1 /\ r.raised = "" /\ r.value = lastFetch.data)
           /\ (Failed(o[1]) /\ ~Failed(o[2])) =>
                 (r.calls = 2 /\ r.raised = "" /\ r.value = lastFetch.data)
           /\ r.raised = "upstream" <=> (Failed(o[1]) /\ Failed(o[2]))
           /\ r.raised = "upstream" => r.last_err = Some(o[2])

\* C5: with an API key _get_csv never raises; it returns the rows of the
\* first attempt that got a good 200 (header key first, then query key), and
\* an empty list if neither did.
C5_CsvNeverRaises ==
    (lastFetch.fn = "_get_csv" /\ key) =>
        LET o == lastFetch.outs
            r == lastFetch.res
            Body(x) == IF x = "blank" THEN << >> ELSE lastFetch.data
        IN /\ r.raised = ""
           /\ r.calls = IF Failed(o[1]) THEN 2 ELSE 1
           /\ SubSeq(Attempts, 1, r.calls) \in {<<"header">>, <<"header", "query">>}
           /\ r.value = IF ~Failed(o[1]) THEN Body(o[1])
                        ELSE IF ~Failed(o[2]) THEN Body(o[2])
                        ELSE << >>

\* 401/403 on both attempts at a listing that has rows: an empty list
C5_Witness ==
    /\ lastFetch.fn = "_get_csv" /\ key
    /\ lastFetch.outs = <<"auth", "auth">>
    /\ lastFetch.data # << >>
    /\ lastFetch.res.raised = "" /\ lastFetch.res.value = << >>

\* discovery has returned
Discovered == pc \in {"meetings", "done"}

\* the identity key of a Meeting: (meeting_id or 0, lowercased venue or "")
IdentityKey(m) ==
    <<IF m.meeting_id = None THEN 0 ELSE m.meeting_id[1],
      IF m.meeting = None THEN << >> ELSE Lower(m.meeting[1])>>

KeySet(ms) == {IdentityKey(ms[i]) : i \in 1..Len(ms)}

\* the elements of L whose key no earlier element has, in order
FirstOccurrences(L) ==
    LET keep == {i \in 1..Len(L) : \A j \in 1..(i - 1) : IdentityKey(L[j]) # IdentityKey(L[i])}
        nth(n) == CHOOSE i \in keep : Cardinality({j \in keep : j <= i}) = n
    IN [n \in 1..Cardinality(keep) |-> L[nth(n)]]

\* C6: the result of _meetings_for_date has no two entries with one identity
\* key; it is listing result then updates result with first occurrences
\* kept, so it starts with the listing entries, and the rest are entries of
\* the updates only.
C6_UnionDistinct ==
    Discovered =>
        /\ \A i, j \in 1..Len(meetings) :
              i # j => IdentityKey(meetings[i]) # IdentityKey(meetings[j])
        /\ meetings = FirstOccurrences(lst_out \o upd_out)
        /\ Len(lst_out) <= Len(meetings)
        /\ SubSeq(meetings, 1, Len(lst_out)) = lst_out
        /\ \A i \in (Len(lst_out) + 1)..Len(meetings) :
              /\ IdentityKey(meetings[i]) \notin KeySet(lst_out)
              /\ \E j \in 1..Len(upd_out) : upd_out[j] = meetings[i]

\* two listing rows, venues differing in case, became one Meeting
C6_Witness ==
    /\ pc = "done"
    /\ Len(listingYmd \o listingDmy) = 2
    /\ (listingYmd \o listingDmy)[1].venue # (listingYmd \o listingDmy)[2].venue
    /\ Len(lst_out) = 1
    /\ meetings = lst_out

IdxPerms(n) == {f \in [1..n -> 1..n] : \A i, j \in 1..n : f[i] = f[j] => i = j}

\* the rearrangements of s
Perms(s) == {[i \in 1..Len(s) |-> s[f[i]]] : f \in IdxPerms(Len(s))}

\* every discovery query returned all the upstream holds for it
Delivered ==
    \A i \in 1..Len(qlog) :
        /\ qlog[i].ep = "listing" =>
              qlog[i].n = Len(IF Tries[qlog[i].a].fmt = "ymd" THEN listingYmd ELSE listingDmy)
        /\ qlog[i].ep = "scratchings" => qlog[i].n = Len(scrFeed)
        /\ qlog[i].ep = "conditions" => qlog[i].n = Len(condFeed)

\* discovery gives one key set for every order of the rows and records
OrderFree ==
    \A ly \in Perms(listingYmd) : \A ld \in Perms(listingDmy) :
    \A s \in Perms(scrFeed) : \A c \in Perms(condFeed) :
        KeySet(Discover(ly, ld, s, c, date)) = KeySet(meetings)

\* the Meetings the records of the two feeds contribute, one by one
Contributions ==
    [i \in 1..Len(scrFeed) |-> UpdatesStep(scrFeed[i], ScrDate(scrFeed[i]), date, << >>)]
    \o [i \in 1..Len(condFeed) |-> UpdatesStep(condFeed[i], CondDate(condFeed[i]), date, << >>)]

\* two records of the feeds that discovery accepts have one meeting_id and
\* venues that differ, case aside
VenueConflict ==
    \E i, j \in 1..Len(Contributions) :
        LET a == Contributions[i]
            b == Contributions[j]
        IN /\ a # << >> /\ b # << >>
           /\ a[1].meeting_id = b[1].meeting_id
           /\ IdentityKey(a[1]) # IdentityKey(b[1])

\* C7 as stated: the set of Meetings (by identity key) is the same whatever
\* the order in which the sources deliver their rows and records.
C7_Claimed == (Discovered /\ Delivered) => OrderFree

\* C7 amended: the same, provided no two accepted records of the updates
\* feeds carry one meeting_id with different venues (the first seen wins).
C7_OrderFreeSameVenue == (Discovered /\ Delivered /\ ~VenueConflict) => OrderFree

\* two accepted scratchings records, of different meetings
C7_Witness ==
    /\ pc = "done" /\ Delivered /\ ~VenueConflict
    /\ Len(scrFeed) = 2 /\ scrFeed[1] # scrFeed[2]
    /\ Len(upd_out) = 2

\* C8: a discovered meeting without meeting_id gets an entry with no id, the
\* discovery venue and no races, and no per-race query; none is dropped.
C8_PassThrough ==
    /\ Len(out_meetings) <= Len(meetings)
    /\ \A i \in 1..Len(meetings) :
          meetings[i].meeting_id = None =>
             /\ FormCalls(i) = << >>
             /\ (i <= Len(out_meetings) =>
                   out_meetings[i] = [meeting_id |-> None, meeting |-> meetings[i].meeting,
                                      races |-> << >>])
             /\ (pc = "done" =>
                   /\ Len(result[1].meetings) = Len(meetings)
                   /\ result[1].meetings[i].meeting = meetings[i].meeting)

\* a run with a meeting without id, with a venue, and one with per-race queries
C8_Witness ==
    /\ pc = "done"
    /\ \E i \in 1..Len(meetings) : meetings[i].meeting_id = None /\ meetings[i].meeting # None
    /\ \E j \in 1..Len(meetings) : FormCalls(j) # << >>

\* the fetch calls of discovery, in order
DiscoverySeq == [i \in 1..7 |-> IF i <= 5 THEN <<"listing", i>>
                                 ELSE IF i = 6 THEN <<"scratchings", 0>>
                                 ELSE <<"conditions", 0>>]

\* C9: the seven discovery calls come first, once each; per-race queries
\* follow, meeting after meeting in discovery order, each meeting with id
\* extracted once; the report has one entry per meeting, in that order.
C9_Order ==
    /\ \A i \in 1..Len(qlog) :
          IF i <= 7 THEN <<qlog[i].ep, qlog[i].a>> = DiscoverySeq[i]
          ELSE /\ qlog[i].ep = "form"
               /\ meetings[qlog[i].a].meeting_id # None
    /\ \A i, j \in 8..Len(qlog) :
          i < j => \/ qlog[i].a < qlog[j].a
                   \/ (qlog[i].a = qlog[j].a /\ qlog[i].b < qlog[j].b)
    /\ Discovered => Len(qlog) >= 7
    /\ pc = "done" =>
          /\ result # None
          /\ Len(result[1].meetings) = Len(meetings)
          /\ \A i \in 1..Len(meetings) :
                /\ result[1].meetings[i].meeting_id = meetings[i].meeting_id
                /\ (meetings[i].meeting_id # None) =>
                      (FormCalls(i) # << >> /\ FormCalls(i)[1].b = 1)
                /\ (\A n \in 1..Len(FormCalls(i)) : FormCalls(i)[n].n = 0) =>
                      result[1].meetings[i].meeting = meetings[i].meeting

\* a report of two meetings that both were extracted
C9_Witness ==
    /\ pc = "done"
    /\ \E i, j \in 1..Len(meetings) :
          i < j /\ FormCalls(i) # << >> /\ FormCalls(j) # << >>

\* the row carries a truthy scratched token
FlaggedScratched(c) ==
    /\ c.scratched # None
    /\ Lower(Strip(c.scratched[1])) \in
          {<<"1">>, <<"t", "r", "u", "e">>, <<"y">>, <<"y", "e", "s">>, <<"t">>}

\* C10: every runner entry of a report has a gear_change that is not blank
\* and a horse_name or a runner_id, and comes from a row of the answer to
\* its race's query that was not flagged scratched.
C10_Retention ==
    \A i \in 1..Len(out_meetings) :
    \A j \in 1..Len(out_meetings[i].races) :
    \A k \in 1..Len(out_meetings[i].races[j].runners) :
        LET race == out_meetings[i].races[j]
            x == race.runners[k]
            src == form[out_meetings[i].meeting_id[1]][race.race_number]
        IN /\ x.gear_change # << >>
           /\ \E p \in 1..Len(x.gear_change) : ~IsSpace(x.gear_change[p])
           /\ (x.horse_name # None \/ x.runner_id # None)
           /\ x.horse_name # None => Strip(x.horse_name[1]) # << >>
           /\ \E n \in 1..Len(src) :
                 /\ src[n].gearchanges # None
                 /\ Runner(GearRow(src[n], race.race_number)) = x
                 /\ ~FlaggedScratched(src[n])

\* a race of the report whose answer also had a row flagged scratched
C10_Witness ==
    \E i \in 1..Len(out_meetings) :
    \E j \in 1..Len(out_meetings[i].races) :
        LET race == out_meetings[i].races[j]
            src == form[out_meetings[i].meeting_id[1]][race.race_number]
        IN /\ race.runners # << >>
           /\ \E n \in 1..Len(src) : FlaggedScratched(src[n])

\* the row has gear text, no truthy scratched token, and a name or an id
Usable(c) ==
    /\ c.gearchanges # None /\ Strip(c.gearchanges[1]) # << >>
    /\ ~FlaggedScratched(c)
    /\ \/ (c.horse_name # None /\ Strip(c.horse_name[1]) # << >>)
       \/ _parse_int(c.runner_id) # None

\* the query for race r of the meeting at index i was answered with rows
Answered(i, r) == \E n \in 1..Len(FormCalls(i)) : FormCalls(i)[n].b = r /\ FormCalls(i)[n].n > 0

\* C11: in every meeting of the report the races are strictly ascending by
\* race_number, every race_number is in 1..15, every race has a runner, and
\* a race is there exactly if its query was answered with a usable row.
C11_Races ==
    \A i \in 1..Len(out_meetings) :
        LET races == out_meetings[i].races IN
        /\ \A j \in 1..Len(races) :
              /\ races[j].race_number \in 1..15
              /\ races[j].runners # << >>
        /\ \A j \in 1..(Len(races) - 1) : races[j].race_number < races[j + 1].race_number
        /\ meetings[i].meeting_id = None => races = << >>
        /\ meetings[i].meeting_id # None =>
              \A r \in 1..15 :
                 (\E j \in 1..Len(races) : races[j].race_number = r)
                 <=> /\ Answered(i, r)
                     /\ \E n \in 1..Len(form[meetings[i].meeting_id[1]][r]) :
                           Usable(form[meetings[i].meeting_id[1]][r][n])

\* race 1 was answered with rows none of which is usable and is absent from
\* the report, race 2 is there
C11_Witness ==
    /\ pc = "done"
    /\ \E i \in 1..Len(out_meetings) :
          /\ Answered(i, 1)
          /\ Len(out_meetings[i].races) = 1
          /\ out_meetings[i].races[1].race_number = 2

\* a <= b in the order of the report: known runner_number first, then
\* ascending runner_number, then horse_name without regard to case
RunnerLeq(a, b) ==
    LET na == IF a.runner_number = None THEN 0 ELSE a.runner_number[1]
        nb == IF b.runner_number = None THEN 0 ELSE b.runner_number[1]
        ha == Lower(IF a.horse_name = None THEN << >> ELSE a.horse_name[1])
        hb == Lower(IF b.horse_name = None THEN << >> ELSE b.horse_name[1])
    IN IF (a.runner_number = None) # (b.runner_number = None) THEN b.runner_number = None
       ELSE IF na # nb THEN na < nb
       ELSE ha = hb \/ StrLess(ha, hb)

\* the runners of race r, had the rows of its answer arrived in the order p
RunnersOf(p, r) == Sorted(ToRunners(SelectSeq(RowsFold(p, r, << >>), HasIdentity)))

\* C12 as stated: in every race of the report a runner with a number comes
\* before every runner without, numbers ascend, ties go by horse_name
\* without regard to case, and the list is the same for every order in
\* which the rows of the answer could have arrived.
C12_Claimed ==
    \A i \in 1..Len(out_meetings) :
    \A j \in 1..Len(out_meetings[i].races) :
        LET race == out_meetings[i].races[j]
            src == form[out_meetings[i].meeting_id[1]][race.race_number]
        IN /\ \A k \in 1..(Len(race.runners) - 1) :
                 RunnerLeq(race.runners[k], race.runners[k + 1])
           /\ \A p \in Perms(src) : RunnersOf(p, race.race_number) = race.runners

\* the date the record itself carries, normalized, is the target date
OwnDateIsTarget(c, feed) ==
    _yyyy_mm_dd(IF feed = "scr" THEN ScrDate(c) ELSE CondDate(c)) = Some(date)

\* the records of a feed whose own date is the target date
Matching(items, feed) == LET T(c) == OwnDateIsTarget(c, feed) IN SelectSeq(items, T)

\* the record gives the Meeting m
Gives(c, m) ==
    /\ m.meeting_id = OrInt(_parse_int(c.meeting_id), _parse_int(c.meetingid))
    /\ m.meeting = OrStr(c.track, c.venue)

\* C13 as stated: every Meeting of _meetings_from_updates comes from a record
\* of a feed whose own date normalizes to the target date, and the records
\* that do not match contribute nothing: the result is the one the matching
\* records alone give.
C13_Claimed ==
    (Discovered /\ Delivered) =>
        /\ \A i \in 1..Len(upd_out) :
              \/ \E n \in 1..Len(scrFeed) :
                    OwnDateIsTarget(scrFeed[n], "scr") /\ Gives(scrFeed[n], upd_out[i])
              \/ \E n \in 1..Len(condFeed) :
                    OwnDateIsTarget(condFeed[n], "cond") /\ Gives(condFeed[n], upd_out[i])
        /\ upd_out = _meetings_from_updates(Matching(scrFeed, "scr"),
                                            Matching(condFeed, "cond"), date)

\* C14 as stated: the raw diagnostic fetch never raises; whatever the
\* outcomes of its attempts, and without an API key too, it returns a
\* diagnostic object.
C14_Claimed ==
    lastFetch.fn = "_get_csv_raw" =>
        /\ lastFetch.res.raised = ""
        /\ lastFetch.res.value # << >>
        /\ lastFetch.res.value.ok \in BOOLEAN

\* the listing queries issued, in order
ListingCalls == LET T(c) == c.ep = "listing" IN SelectSeq(qlog, T)

\* the Meetings of the rows the n-th listing query returned
ListingReturned(n) ==
    LET c == ListingCalls[n]
        rows == IF c.n = 0 THEN << >>
                ELSE IF Tries[c.a].fmt = "ymd" THEN listingYmd ELSE listingDmy
    IN [k \in 1..Len(rows) |-> [meeting_id |-> _parse_int(rows[k].meeting_id),
                                meeting |-> ListingVenue(rows[k])]]

RECURSIVE ListingReturnedUpTo(_)
ListingReturnedUpTo(n) ==
    IF n = 0 THEN << >> ELSE ListingReturnedUpTo(n - 1) \o ListingReturned(n)

\* the five permutations in the order the claim gives
FivePermutations ==
    << <<"meetingDate", "ymd">>, <<"date", "ymd">>, <<"meeting_date", "ymd">>,
       <<"meetingDate", "dmy">>, <<"date", "dmy">> >>

\* the listing queries issued so far are the first of the five permutations,
\* and lst_out holds the first occurrences of what they returned
ListingInOrder ==
    /\ Len(ListingCalls) <= 5
    /\ \A n \in 1..Len(ListingCalls) :
          <<Tries[ListingCalls[n].a].param, Tries[ListingCalls[n].a].fmt>> = FivePermutations[n]
    /\ lst_out = FirstOccurrences(ListingReturnedUpTo(Len(ListingCalls)))

RECURSIVE SeenRows(_, _)
SeenRows(i, n) ==
    IF n = 0 THEN << >>
    ELSE LET c == FormCalls(i)[n] IN
         SeenRows(i, n - 1)
         \o (IF c.n = 0 THEN << >> ELSE form[meetings[i].meeting_id[1]][c.b])

HasTrack(c) == c.track_name # None /\ Strip(c.track_name[1]) # << >>

\* the track name of the first of rows that carries one
FirstTrack(rows) ==
    IF \E k \in 1..Len(rows) : HasTrack(rows[k])
    THEN LET k == CHOOSE k \in 1..Len(rows) :
                     HasTrack(rows[k]) /\ \A j \in 1..(k - 1) : ~HasTrack(rows[j])
         IN Some(Strip(rows[k].track_name[1]))
    ELSE None

\* C16: while a meeting is extracted, meeting_name is the track name of the
\* first row returned so far that carries one (so a later race never changes
\* it) and unset if none does; the report labels the meeting with it if it
\* is set and with the discovery venue otherwise.
C16_TrackName ==
    /\ pc = "meetings" =>
          meeting_name = IF meetings[mi].meeting_id = None THEN None
                         ELSE FirstTrack(SeenRows(mi, Len(FormCalls(mi))))
    /\ \A i \in 1..Len(out_meetings) :
          meetings[i].meeting_id # None =>
             LET t == FirstTrack(SeenRows(i, Len(FormCalls(i)))) IN
             out_meetings[i].meeting = IF t # None THEN t ELSE meetings[i].meeting

\* a meeting labelled with the track name of race 1 although race 2 was
\* answered with a row that carries another, and the venue is a third
C16_Witness ==
    \E i \in 1..Len(out_meetings) :
        /\ meetings[i].meeting_id # None
        /\ Answered(i, 1) /\ Answered(i, 2)
        /\ FirstTrack(form[meetings[i].meeting_id[1]][1]) = Some(<<"C">>)
        /\ FirstTrack(form[meetings[i].meeting_id[1]][2]) = Some(<<"F">>)
        /\ out_meetings[i].meeting = Some(<<"C">>)

\* the key is made of small letters, digits and single underscores only
CanonChars(c) ==
    /\ \A i \in 1..Len(c) : c[i] = "_" \/ IsLowerAlnum(c[i])
    /\ \A i \in 1..(Len(c) - 1) : ~(c[i] = "_" /\ c[i + 1] = "_")

\* the key neither begins nor ends with an underscore
Trimmed(c) == c # << >> => (c[1] # "_" /\ c[Len(c)] # "_")

\* the letters and digits of a key, letters made small
Alnums(s) == LET T(ch) == ch # "_" /\ IsLowerAlnum(ch) IN SelectSeq(Lower(s), T)

\* C17 as stated: every canonical key is made of small letters, digits and
\* single underscores, keeps the letters and digits of the raw key, neither
\* begins nor ends with an underscore, and is its own canonical key; a
\* canonical record has the values of the raw one, and canonicalizing it
\* again changes nothing.
C17_Claimed ==
    /\ lastFetch.fn = "_snakify" =>
          /\ CanonChars(lastFetch.res)
          /\ Alnums(lastFetch.res) = Alnums(lastFetch.data)
          /\ Trimmed(lastFetch.res)
          /\ _snakify(lastFetch.res) = lastFetch.res
    /\ lastFetch.fn = "_canonise" =>
          /\ \A i \in 1..Len(lastFetch.res) :
                /\ CanonChars(lastFetch.res[i].k) /\ Trimmed(lastFetch.res[i].k)
                /\ \E j \in 1..Len(lastFetch.data) :
                      /\ _snakify(lastFetch.data[j].k) = lastFetch.res[i].k
                      /\ lastFetch.data[j].v = lastFetch.res[i].v
          /\ \A j \in 1..Len(lastFetch.data) :
                \E i \in 1..Len(lastFetch.res) : lastFetch.res[i].k = _snakify(lastFetch.data[j].k)
          /\ _canonise(lastFetch.res) = lastFetch.res

\* the runner entry x stems from a row of the answer to the query for race r
\* of the meeting at index i
FromAnswer(i, r, x) ==
    /\ Answered(i, r)
    /\ \E n \in 1..Len(form[meetings[i].meeting_id[1]][r]) :
          LET c == form[meetings[i].meeting_id[1]][r][n] IN
          /\ c.gearchanges # None
          /\ Runner(GearRow(c, r)) = x

\* C18: every gear row collected, and every runner of the report, stands
\* under the race number of a query that was issued for its meeting and
\* answered with the row it stems from, whatever race_number field the row
\* carries.
C18_LoopCounter ==
    /\ pc = "meetings" =>
          \A k \in 1..Len(all_rows) :
             /\ all_rows[k].race_number < rn
             /\ FromAnswer(mi, all_rows[k].race_number, Runner(all_rows[k]))
    /\ \A i \in 1..Len(out_meetings) :
       \A j \in 1..Len(out_meetings[i].races) :
       \A k \in 1..Len(out_meetings[i].races[j].runners) :
          FromAnswer(i, out_meetings[i].races[j].race_number,
                     out_meetings[i].races[j].runners[k])

\* the report has a runner under race 1 from a row that says race 9, and no
\* race 9
C18_Witness ==
    \E i \in 1..Len(out_meetings) :
        /\ out_meetings[i].races # << >>
        /\ out_meetings[i].races[1].race_number = 1
        /\ \A j \in 1..Len(out_meetings[i].races) : out_meetings[i].races[j].race_number # 9
        /\ \E n \in 1..Len(form[meetings[i].meeting_id[1]][1]) :
              LET c == form[meetings[i].meeting_id[1]][1][n] IN
              /\ c.race_number = Some(<<"9">>)
              /\ Usable(c)
              /\ \E k \in 1..Len(out_meetings[i].races[1].runners) :
                    out_meetings[i].races[1].runners[k] = Runner(GearRow(c, 1))

\* request r ends its fetch in this step
Returns(r) == reqs[r].pc = "fetching" /\ reqs'[r].pc = "done"

\* the cache after the step is the cache before it with data under d
Stored(d, data) ==
    /\ DOMAIN GEAR_CACHE' = (DOMAIN GEAR_CACHE) \cup {d}
    /\ GEAR_CACHE'[d] = data
    /\ \A x \in (DOMAIN GEAR_CACHE) \ {d} : GEAR_CACHE'[x] = GEAR_CACHE[x]

\* C19: whatever the interleaving of the requests, the cache changes only in
\* the step in which the fetch of a request for d returns a report, and then
\* that report, whose date is d, is stored under d; a request whose fetch
\* raises leaves the cache as it is; every entry has the date of its key.
C19_CacheWrites ==
    [][ /\ GEAR_CACHE' # GEAR_CACHE =>
              \E r \in Reqs : /\ Returns(r) /\ reqs'[r].status = 200
                              /\ reqs'[r].body.date = reqs[r].d
                              /\ Stored(reqs[r].d, reqs'[r].body)
        /\ \A r \in Reqs : (Returns(r) /\ reqs'[r].status # 200) => GEAR_CACHE' = GEAR_CACHE
        /\ \A d \in DOMAIN GEAR_CACHE' : GEAR_CACHE'[d].date = d ]_vars

\* a warm request for d failed with 502, the entry for d is still there, and
\* a request that is not warm was served it
C19_Witness ==
    \E r, r2 \in Reqs :
        /\ reqs[r].pc = "done" /\ reqs[r].warm /\ reqs[r].status = 502
        /\ reqs[r].d \in DOMAIN GEAR_CACHE
        /\ reqs[r2].pc = "done" /\ ~reqs[r2].warm /\ reqs[r2].calls = 0
        /\ reqs[r2].d = reqs[r].d /\ reqs[r2].body = GEAR_CACHE[reqs[r].d]

\* C20: a request that is not warm, for a date in the cache, is answered
\* with the cached report, calls no fetch and leaves the cache alone; every
\* other request calls fetch_gear_for_date once, and when that returns a
\* report the entry of its date becomes that report.
C20_HitOrFetch ==
    [][ \A r \in Reqs :
          /\ (reqs[r].pc = "idle" /\ reqs'[r].pc # "idle") =>
                /\ GEAR_CACHE' = GEAR_CACHE
                /\ IF ~reqs'[r].warm /\ reqs'[r].d \in DOMAIN GEAR_CACHE
                   THEN /\ reqs'[r].pc = "done" /\ reqs'[r].status = 200
                        /\ reqs'[r].body = GEAR_CACHE[reqs'[r].d]
                        /\ reqs'[r].calls = 0
                   ELSE reqs'[r].pc = "fetching" /\ reqs'[r].calls = 1
          /\ (Returns(r) /\ reqs'[r].status = 200) =>
                (reqs'[r].calls = 1 /\ Stored(reqs[r].d, reqs'[r].body)) ]_vars

\* a request was served the cached report of a date, and a warm request for
\* that date has since put another report in its place
C20_Witness ==
    \E r, r2 \in Reqs :
        /\ reqs[r].pc = "done" /\ reqs[r].warm /\ reqs[r].status = 200 /\ reqs[r].calls = 1
        /\ GEAR_CACHE[reqs[r].d] = reqs[r].body
        /\ reqs[r2].pc = "done" /\ ~reqs[r2].warm /\ reqs[r2].calls = 0
        /\ reqs[r2].d = reqs[r].d /\ reqs[r2].body # reqs[r].body

====
